---------------------------- MODULE Spec2Model ----------------------------
(***************************************************************************)
(* json-proxy-middleware: the forwarding handler returned by the default   *)
(* export of the latest variant of the module (the one with addCurlHeader) *)
(* and the event listeners it registers on the outbound request stream and *)
(* on the piped response stream.                                           *)
(*                                                                         *)
(* Strings are TLA+ strings; a JavaScript value that may or may not be a   *)
(* string is a record [t, s, n] (typeof, string value, number value).      *)
(* Every observable effect of the handler and of its listeners (a logger   *)
(* call, a call of next, the outbound request(), res.setHeader, pipe), and *)
(* every event delivered to a listener, is appended in program order to    *)
(* the request's trace.                                                    *)
(***************************************************************************)
EXTENDS Integers, Sequences, FiniteSets, TLC

VARIABLES
    config,     \* the ProxyMiddlewareOptions the handler was built with
    inbound,    \* inbound[r]: the request object (req) of request r
    phase,      \* "absent" | "pending" | "threw" | "hostError" | "streaming"
    closure,    \* what the listeners of request r captured
    trace,      \* trace[r]: events delivered and effects performed, in order
    conn,       \* the outbound request: "none" | "open" | "closed"
    res,        \* the response object: headers set, chunks piped, state
    errBudget,  \* 'error' events the response stream may still emit
    hostCalls   \* hostCalls[r]: calls of options.urlHost made for request r

vars == <<config, inbound, phase, closure, trace, conn, res, errBudget,
          hostCalls>>

(***************************************************************************)
(* Bounds of the model.                                                    *)
(***************************************************************************)
MaxResponseErrors == 1
MaxChunks == 1

Reqs == {"r1", "r2"}

(***************************************************************************)
(* JavaScript values.                                                      *)
(***************************************************************************)
JsString(s) == [t |-> "string", s |-> s, n |-> 0]
JsNumber(n) == [t |-> "number", s |-> "", n |-> n]
JsUndefined == [t |-> "undefined", s |-> "", n |-> 0]

TypeOf(v) == v.t

Digit(d) == SubSeq("0123456789", d + 1, d + 1)

RECURSIVE NatToString(_)
NatToString(n) == IF n < 10 THEN Digit(n)
                  ELSE NatToString(n \div 10) \o Digit(n % 10)

\* `${v}` in a template literal
JsToString(v) ==
    CASE v.t = "string" -> v.s
      [] v.t = "number" -> NatToString(v.n)
      [] OTHER -> "undefined"

\* a value used as a condition
Truthy(v) ==
    CASE v.t = "string" -> v.s # ""
      [] v.t = "number" -> v.n # 0
      [] OTHER -> FALSE

(***************************************************************************)
(* Strings: String.prototype.replace with a string pattern replaces the    *)
(* first occurrence only; String.prototype.includes.                       *)
(***************************************************************************)
Occurs(s, p, i) == SubSeq(s, i, i + Len(p) - 1) = p

\* the 1-based index of the first occurrence of p in s, 0 when there is none
IndexOf(s, p) ==
    LET at == {i \in 1..(Len(s) - Len(p) + 1) : Occurs(s, p, i)}
    IN  IF at = {} THEN 0 ELSE CHOOSE i \in at : \A j \in at : i <= j

Replace(s, p, by) ==
    LET i == IndexOf(s, p)
    IN  IF i = 0 THEN s
        ELSE SubSeq(s, 1, i - 1) \o by \o SubSeq(s, i + Len(p), Len(s))

Includes(s, p) == IndexOf(s, p) # 0

\* s written n times over, built in halves
RECURSIVE Repeat(_, _)
Repeat(s, n) ==
    IF n = 0 THEN ""
    ELSE IF n = 1 THEN s
    ELSE LET h == n \div 2 IN Repeat(s, h) \o Repeat(s, n - h)

(***************************************************************************)
(* Objects are sequences of <<key, value>> pairs in insertion order.       *)
(***************************************************************************)
EmptyObject == << >>

Has(o, k) == \E i \in 1..Len(o) : o[i][1] = k

Get(o, k) == o[CHOOSE i \in 1..Len(o) : o[i][1] = k][2]

\* o[k] = v: an existing key keeps its place, a new key is added last
Put(o, k, v) ==
    IF Has(o, k)
    THEN [i \in 1..Len(o) |-> IF o[i][1] = k THEN <<k, v>> ELSE o[i]]
    ELSE Append(o, <<k, v>>)

\* {...a, ...b}
RECURSIVE Spread(_, _)
Spread(a, b) ==
    IF b = << >> THEN a
    ELSE Spread(Put(a, Head(b)[1], Head(b)[2]), Tail(b))

(***************************************************************************)
(* The options (ProxyMiddlewareOptions).  An option that may be a function *)
(* names the function; the functions are the caller's code and are drawn   *)
(* from the small sets below.                                              *)
(***************************************************************************)
FixedOption(v) == [kind |-> "value", value |-> v, fn |-> "-"]
FunctionOption(f) == [kind |-> "function", value |-> JsUndefined, fn |-> f]

UrlHostFunctions == {"hostOfMount", "returns42", "returnsUndefined", "throws"}

\* urlHost(req, res) for the resolver functions of the model
CallUrlHost(fn, req) ==
    CASE fn = "hostOfMount" ->
             [threw |-> FALSE,
              value |-> JsString(IF req.baseUrl = "" THEN "http://a"
                                 ELSE "http://b")]
      [] fn = "returns42" -> [threw |-> FALSE, value |-> JsNumber(42)]
      [] fn = "returnsUndefined" -> [threw |-> FALSE, value |-> JsUndefined]
      [] OTHER -> [threw |-> TRUE, value |-> JsUndefined]

UrlHostOptions ==
    {FixedOption(JsString("http://a")), FixedOption(JsString("")),
     FixedOption(JsNumber(42))}
    \cup {FunctionOption(f) : f \in UrlHostFunctions}

\* the logger: absent, or an object that has the methods named
LoggerOptions == {"absent", "full", "infoOnly", "errorOnly"}

HasInfo(logger) == logger \in {"full", "infoOnly"}
HasError(logger) == logger \in {"full", "errorOnly"}

\* additionalLogMessage; "" stands for an absent one as well (both are falsy)
LogMessages == {"", "orders-service"}

HeaderFunctions == {"userOfMethod"}

\* headers(req, res) for the header functions of the model
CallHeaders(fn, req) == << <<"x-user", "u-" \o req.method>> >>

HeadersOptions ==
    {[kind |-> "absent", value |-> EmptyObject, fn |-> "-"],
     [kind |-> "value", value |-> << <<"x-token", "t1">> >>, fn |-> "-"],
     [kind |-> "value", value |-> << <<"Accept", "text/plain">> >>, fn |-> "-"]}
    \cup {[kind |-> "function", value |-> EmptyObject, fn |-> f] :
              f \in HeaderFunctions}

CurlFunctions == {"whenQuery"}

\* addCurlHeader(req, res) for the functions of the model
CallAddCurlHeader(fn, req) == Includes(req.originalUrl, "?")

AddCurlHeaderOptions ==
    {[kind |-> "absent", value |-> FALSE, fn |-> "-"],
     [kind |-> "value", value |-> FALSE, fn |-> "-"],
     [kind |-> "value", value |-> TRUE, fn |-> "-"]}
    \cup {[kind |-> "function", value |-> FALSE, fn |-> f] : f \in CurlFunctions}

(***************************************************************************)
(* The inbound request: what the handler reads from req.  baseUrl is the   *)
(* mount path express has matched, a prefix of originalUrl.  body is       *)
(* undefined (no body parser ran) or a parsed JSON object, a sequence of   *)
(* <<key, number>> pairs.                                                  *)
(***************************************************************************)
BodyUndefined == [t |-> "undefined", pairs |-> << >>]
BodyObject(pairs) == [t |-> "object", pairs |-> pairs]

\* a parsed body with one member whose key has n characters
PaddedBody(n) == BodyObject(<< <<Repeat("k", n), 1>> >>)

Bodies == {BodyUndefined, BodyObject(<< >>), BodyObject(<< <<"a", 1>> >>)}

Methods == {"GET", "POST"}

Urls ==
    {[originalUrl |-> "/v1/x", baseUrl |-> ""],
     [originalUrl |-> "/api/v1/x?q=1", baseUrl |-> "/api"],
     [originalUrl |-> "/api/api", baseUrl |-> "/api"]}

\* req.agentOptions; an absent one spreads as no keys, like the empty object
AgentOptions ==
    {EmptyObject, << <<"ca", "pem">> >>,
     << <<"ca", "pem">>, <<"url", "http://other">> >>}

Requests ==
    {[method |-> m, originalUrl |-> u.originalUrl, baseUrl |-> u.baseUrl,
      body |-> b, agentOptions |-> a] :
         m \in Methods, u \in Urls, b \in Bodies, a \in AgentOptions}

(***************************************************************************)
(* The handler's pure parts.                                               *)
(***************************************************************************)
defaultHeaders ==
    << <<"Accept", "application/json">>,
       <<"Content-Type", "application/json">> >>

MAX_HEADER_SIZE == 20 * 2048

RECURSIVE JoinPairs(_)
JoinPairs(pairs) ==
    IF pairs = << >> THEN ""
    ELSE "\"" \o Head(pairs)[1] \o "\":" \o NatToString(Head(pairs)[2])
         \o (IF Len(pairs) > 1 THEN "," ELSE "") \o JoinPairs(Tail(pairs))

\* JSON.stringify(req.body): undefined for undefined, else the JSON text
JsonStringify(body) ==
    IF body.t = "undefined" THEN JsUndefined
    ELSE JsString("{" \o JoinPairs(body.pairs) \o "}")

\* JSON.stringify of a string: quoted, with quotes and backslashes escaped
EscapeChar(c) ==
    CASE c = "\"" -> "\\\""
      [] c = "\\" -> "\\\\"
      [] OTHER -> c

\* character by character, splitting the string in halves
RECURSIVE EscapeString(_)
EscapeString(s) ==
    IF Len(s) <= 1 THEN EscapeChar(s)
    ELSE LET h == Len(s) \div 2
         IN  EscapeString(SubSeq(s, 1, h)) \o EscapeString(SubSeq(s, h + 1, Len(s)))

QuoteString(s) == "\"" \o EscapeString(s) \o "\""

\* the characters of the model's strings that encodeURI escapes
EncodeChar(c) ==
    CASE c = " " -> "%20"
      [] c = "\"" -> "%22"
      [] c = "{" -> "%7B"
      [] c = "}" -> "%7D"
      [] c = "\\" -> "%5C"
      [] c = "%" -> "%25"
      [] OTHER -> c

RECURSIVE EncodeURI(_)
EncodeURI(s) ==
    IF Len(s) <= 1 THEN EncodeChar(s)
    ELSE LET h == Len(s) \div 2
         IN  EncodeURI(SubSeq(s, 1, h)) \o EncodeURI(SubSeq(s, h + 1, Len(s)))

RECURSIVE CurlHeaders(_)
CurlHeaders(headers) ==
    IF headers = << >> THEN ""
    ELSE "-H '" \o Head(headers)[1] \o ": " \o Head(headers)[2] \o "' "
         \o CurlHeaders(Tail(headers))

createCurlRequest(requestOptions) ==
    LET body == Get(requestOptions, "body")
        requestBody == IF Truthy(body) THEN QuoteString(body.s) ELSE "{}"
    IN  "'" \o Get(requestOptions, "url") \o "' -X "
        \o Get(requestOptions, "method") \o " "
        \o CurlHeaders(Get(requestOptions, "headers")) \o " -d " \o requestBody

\* a variant that puts the additional message in front
FullMsg_MessageFirst(prefix, additionalLogMessage) ==
    IF additionalLogMessage # "" THEN additionalLogMessage \o " " \o prefix
    ELSE prefix

FullMsg(prefix, additionalLogMessage) ==
    IF additionalLogMessage # "" THEN prefix \o " " \o additionalLogMessage
    ELSE prefix

CanLogError(cfg) == HasError(cfg.logger)
CanLogInfo(cfg) == HasInfo(cfg.logger)

ResolveHost(cfg, req) ==
    IF cfg.urlHost.kind = "function" THEN CallUrlHost(cfg.urlHost.fn, req)
    ELSE [threw |-> FALSE, value |-> cfg.urlHost.value]

\* the calls of options.urlHost in one pass of the handler: one when it is a
\* function; the listeners use the host the handler has kept
HostResolverCalls(cfg) == IF cfg.urlHost.kind = "function" THEN 1 ELSE 0

\* a variant that forwards the path as the client sent it, mount included
UrlPath_KeepsMount(req) == req.originalUrl

UrlPath(req) == Replace(req.originalUrl, req.baseUrl, "")

\* a variant that rejects undefined only
HostIsValid_NotUndefined(host) == TypeOf(host) # "undefined"

HostIsValid(host) == TypeOf(host) = "string"

\* a variant that spreads the defaults last, so that a default wins a clash
ResolveHeaders_DefaultsLast(cfg, req) ==
    Spread(IF cfg.headers.kind = "function" THEN CallHeaders(cfg.headers.fn, req)
           ELSE cfg.headers.value,
           defaultHeaders)

ResolveHeaders(cfg, req) ==
    Spread(defaultHeaders,
           IF cfg.headers.kind = "function" THEN CallHeaders(cfg.headers.fn, req)
           ELSE cfg.headers.value)

\* a variant that numbers the outbound requests in a header, counting the
\* requests the handler has been called for so far
RequestOptions_Numbered(host, urlPath, headers, req) ==
    Spread(Spread(EmptyObject, req.agentOptions),
           << <<"method", req.method>>,
              <<"headers",
                Put(headers, "x-seq",
                    NatToString(Cardinality(
                        {r \in Reqs : phase[r] \notin {"absent", "pending"}})))>>,
              <<"url", host \o urlPath>>,
              <<"body", JsonStringify(req.body)>> >>)

\* a variant that carries agentOptions as one nested key, as the variant
\* before the spread did
RequestOptions_NestedAgentOptions(host, urlPath, headers, req) ==
    << <<"method", req.method>>,
       <<"agentOptions", req.agentOptions>>,
       <<"headers", headers>>,
       <<"url", host \o urlPath>>,
       <<"body", JsonStringify(req.body)>> >>

RequestOptions(host, urlPath, headers, req) ==
    Spread(Spread(EmptyObject, req.agentOptions),
           << <<"method", req.method>>,
              <<"headers", headers>>,
              <<"url", host \o urlPath>>,
              <<"body", JsonStringify(req.body)>> >>)

ShouldAddCurlHeader(cfg, req) ==
    IF cfg.addCurlHeader.kind = "function"
    THEN CallAddCurlHeader(cfg.addCurlHeader.fn, req)
    ELSE cfg.addCurlHeader.value

(***************************************************************************)
(* Effects.  A logger call carries its fields and its message, a call of   *)
(* next carries the VError.                                                *)
(***************************************************************************)
ErrorLog(name, additionalLogMessage, host, urlPath) ==
    [op |-> "logger.error",
     fields |-> [host |-> host, urlPath |-> urlPath,
                 url |-> JsToString(host) \o urlPath],
     msg |-> FullMsg("Proxy Error: " \o name, additionalLogMessage)]

HostVError(cfg, req) ==
    [name |-> "PROXY_HOST_ERROR",
     message |-> "urlHost could not be resolved to a valid string.",
     meta |-> [additionalLogMessage |-> cfg.additionalLogMessage,
               body |-> req.body]]

\* a variant whose listeners read host and urlPath from where the handler's
\* call for another request has written them
StreamVError_SharedClosure(name, message, c, err) ==
    LET others == {r \in Reqs : phase[r] = "streaming" /\ closure[r] # c}
        shared == IF others = {} THEN c ELSE closure[CHOOSE r \in others : TRUE]
    IN  [name |-> name,
         cause |-> err,
         message |-> message,
         detail |-> "The proxied path is " \o shared.urlPath
                    \o ". The host is " \o shared.host \o ".",
         meta |-> [additionalLogMessage |-> c.additionalLogMessage,
                   url |-> shared.host \o shared.urlPath,
                   body |-> c.body]]

\* a variant that leaves the host out of the url
StreamVError_PathOnly(name, message, c, err) ==
    [name |-> name,
     cause |-> err,
     message |-> message,
     detail |-> "The proxied path is " \o c.urlPath \o ". The host is "
                \o c.host \o ".",
     meta |-> [additionalLogMessage |-> c.additionalLogMessage,
               url |-> c.urlPath,
               body |-> c.body]]

StreamVError(name, message, c, err) ==
    [name |-> name,
     cause |-> err,
     message |-> message,
     detail |-> "The proxied path is " \o c.urlPath \o ". The host is "
                \o c.host \o ".",
     meta |-> [additionalLogMessage |-> c.additionalLogMessage,
               url |-> c.host \o c.urlPath,
               body |-> c.body]]

CallNext(error) == [op |-> "next", err |-> error]

\* a variant that answers the client itself, as the earliest variant of the
\* module did
HostErrorEffects_Sends500(cfg, req, host, urlPath) ==
    <<[op |-> "res.status", code |-> 500],
      [op |-> "res.send", body |-> HostVError(cfg, req)]>>

\* a variant that calls next inside the branch that logs
HostErrorEffects_NextWhenLogged(cfg, req, host, urlPath) ==
    IF CanLogError(cfg)
    THEN <<ErrorLog("PROXY_HOST_ERROR", cfg.additionalLogMessage, host, urlPath),
           CallNext(HostVError(cfg, req))>>
    ELSE << >>

\* typeof host !== 'string': log if the logger can, call next, return
HostErrorEffects(cfg, req, host, urlPath) ==
    (IF CanLogError(cfg)
     THEN <<ErrorLog("PROXY_HOST_ERROR", cfg.additionalLogMessage, host, urlPath)>>
     ELSE << >>)
    \o <<CallNext(HostVError(cfg, req))>>

\* a variant whose cap is inclusive
CurlCommandFits_Inclusive(curlCommand) ==
    curlCommand # "" /\ Len(curlCommand) <= MAX_HEADER_SIZE

\* curlCommand && curlCommand.length < MAX_HEADER_SIZE
CurlCommandFits(curlCommand) ==
    curlCommand # "" /\ Len(curlCommand) < MAX_HEADER_SIZE

\* a variant that sets the header once the response is being piped
ForwardEffects_HeaderAfterPipe(cfg, req, host, urlPath) ==
    LET headers == ResolveHeaders(cfg, req)
        requestOptions == RequestOptions(host, urlPath, headers, req)
        shouldAddCurlHeader == ShouldAddCurlHeader(cfg, req)
        curlCommand == EncodeURI(createCurlRequest(requestOptions))
    IN  (IF CanLogInfo(cfg)
         THEN <<[op |-> "logger.info",
                 fields |-> [host |-> JsString(host), urlPath |-> urlPath,
                             headers |-> headers, url |-> host \o urlPath,
                             body |-> req.body],
                 msg |-> FullMsg("Proxy start.", cfg.additionalLogMessage)]>>
         ELSE << >>)
        \o <<[op |-> "request", options |-> requestOptions]>>
        \o <<[op |-> "pipe"]>>
        \o (IF shouldAddCurlHeader /\ CurlCommandFits(curlCommand)
            THEN <<[op |-> "res.setHeader", name |-> "x-curl-command",
                    value |-> curlCommand]>>
            ELSE << >>)

\* a variant that logs the start once the request has been issued
ForwardEffects_RequestFirst(cfg, req, host, urlPath) ==
    LET headers == ResolveHeaders(cfg, req)
        requestOptions == RequestOptions(host, urlPath, headers, req)
        shouldAddCurlHeader == ShouldAddCurlHeader(cfg, req)
        curlCommand == EncodeURI(createCurlRequest(requestOptions))
    IN  <<[op |-> "request", options |-> requestOptions]>>
        \o (IF CanLogInfo(cfg)
            THEN <<[op |-> "logger.info",
                    fields |-> [host |-> JsString(host), urlPath |-> urlPath,
                                headers |-> headers, url |-> host \o urlPath,
                                body |-> req.body],
                    msg |-> FullMsg("Proxy start.", cfg.additionalLogMessage)]>>
            ELSE << >>)
        \o (IF shouldAddCurlHeader /\ CurlCommandFits(curlCommand)
            THEN <<[op |-> "res.setHeader", name |-> "x-curl-command",
                    value |-> curlCommand]>>
            ELSE << >>)
        \o <<[op |-> "pipe"]>>

\* the rest of the handler once the host is a string
ForwardEffects(cfg, req, host, urlPath) ==
    LET headers == ResolveHeaders(cfg, req)
        requestOptions == RequestOptions(host, urlPath, headers, req)
        shouldAddCurlHeader == ShouldAddCurlHeader(cfg, req)
        curlCommand == EncodeURI(createCurlRequest(requestOptions))
    IN  (IF CanLogInfo(cfg)
         THEN <<[op |-> "logger.info",
                 fields |-> [host |-> JsString(host), urlPath |-> urlPath,
                             headers |-> headers, url |-> host \o urlPath,
                             body |-> req.body],
                 msg |-> FullMsg("Proxy start.", cfg.additionalLogMessage)]>>
         ELSE << >>)
        \o <<[op |-> "request", options |-> requestOptions]>>
        \o (IF shouldAddCurlHeader /\ CurlCommandFits(curlCommand)
            THEN <<[op |-> "res.setHeader", name |-> "x-curl-command",
                    value |-> curlCommand]>>
            ELSE << >>)
        \o <<[op |-> "pipe"]>>

NoClosure ==
    [host |-> "", urlPath |-> "", body |-> BodyUndefined,
     canLogError |-> FALSE, canLogInfo |-> FALSE, additionalLogMessage |-> ""]

\* a variant that catches the resolver's exception and reports a host error
ResolverThrew_Caught(cfg, req) ==
    [phase |-> "hostError",
     effects |-> HostErrorEffects(cfg, req, JsUndefined, UrlPath(req)),
     closure |-> NoClosure]

\* options.urlHost(req, res) throws: nothing catches it, the exception leaves
\* the handler before any other effect
ResolverThrew(cfg, req) ==
    [phase |-> "threw", effects |-> <<[op |-> "throw"]>>, closure |-> NoClosure]

\* the handler, from its first line to its return (or to the exception that
\* leaves it): the phase it ends in, its effects, what its listeners capture
Handler(cfg, req) ==
    LET resolved == ResolveHost(cfg, req)
        host == resolved.value
        urlPath == UrlPath(req)
    IN  IF resolved.threw
        THEN ResolverThrew(cfg, req)
        ELSE IF ~HostIsValid(host)
        THEN [phase |-> "hostError",
              effects |-> HostErrorEffects(cfg, req, host, urlPath),
              closure |-> NoClosure]
        ELSE [phase |-> "streaming",
              effects |-> ForwardEffects(cfg, req, host.s, urlPath),
              closure |-> [host |-> host.s, urlPath |-> urlPath,
                           body |-> req.body,
                           canLogError |-> CanLogError(cfg),
                           canLogInfo |-> CanLogInfo(cfg),
                           additionalLogMessage |-> cfg.additionalLogMessage]]

\* a variant that issues the request again before it reports the error
OnRequestError_Retries(c, err) ==
    <<[op |-> "request", options |-> EmptyObject],
      CallNext(StreamVError("PROXY_REQUEST_ERROR",
          "There was an error while making the proxied request.", c, err))>>

\* requestStream.on('error', ...)
OnRequestError(c, err) ==
    (IF c.canLogError
     THEN <<ErrorLog("PROXY_REQUEST_ERROR", c.additionalLogMessage,
                     JsString(c.host), c.urlPath)>>
     ELSE << >>)
    \o <<CallNext(StreamVError("PROXY_REQUEST_ERROR",
             "There was an error while making the proxied request.", c, err))>>

\* a variant that calls next before it logs
OnResponseError_NextFirst(c, err) ==
    <<CallNext(StreamVError("PROXY_RESPONSE_ERROR",
          "There was an error while streaming the response.", c, err))>>
    \o (IF c.canLogError
        THEN <<ErrorLog("PROXY_RESPONSE_ERROR", c.additionalLogMessage,
                        JsString(c.host), c.urlPath)>>
        ELSE << >>)

\* a variant whose response listener is a copy of the request listener
OnResponseError_RequestKind(c, err) ==
    (IF c.canLogError
     THEN <<ErrorLog("PROXY_REQUEST_ERROR", c.additionalLogMessage,
                     JsString(c.host), c.urlPath)>>
     ELSE << >>)
    \o <<CallNext(StreamVError("PROXY_REQUEST_ERROR",
             "There was an error while making the proxied request.", c, err))>>

\* responseStream.on('error', ...)
OnResponseError(c, err) ==
    (IF c.canLogError
     THEN <<ErrorLog("PROXY_RESPONSE_ERROR", c.additionalLogMessage,
                     JsString(c.host), c.urlPath)>>
     ELSE << >>)
    \o <<CallNext(StreamVError("PROXY_RESPONSE_ERROR",
             "There was an error while streaming the response.", c, err))>>

\* responseStream.on('finish', ...); the duration's value is left out
OnFinish(c) ==
    IF c.canLogInfo
    THEN <<[op |-> "logger.info",
            fields |-> [host |-> JsString(c.host), urlPath |-> c.urlPath],
            msg |-> FullMsg("Proxy end.", c.additionalLogMessage)]>>
    ELSE << >>

(***************************************************************************)
(* The state machine.                                                      *)
(***************************************************************************)
Errors == {"ECONNREFUSED", "ECONNRESET"}

NewResponse == [headers |-> EmptyObject, piped |-> FALSE, chunks |-> 0,
                state |-> "open"]

NextCalls(r) == SelectSeq(trace[r], LAMBDA e : e.op = "next")
OutboundRequests(r) == SelectSeq(trace[r], LAMBDA e : e.op = "request")
SetHeaders(effects) == SelectSeq(effects, LAMBDA e : e.op = "res.setHeader")

\* the configurations and requests of the main specification
MainConfigs ==
    [urlHost : UrlHostOptions,
     logger : LoggerOptions,
     additionalLogMessage : LogMessages,
     headers : {h \in HeadersOptions : h.kind = "absent" \/ Has(h.value, "Accept")},
     addCurlHeader : {a \in AddCurlHeaderOptions : a.kind # "function" /\ (a.kind = "value" => a.value)}]

MainRequests ==
    {q \in Requests : q.method = "POST" /\ q.agentOptions = EmptyObject
                      /\ q.body.t = "object"}

InitWith(configs, requests, arriving, budget) ==
    /\ config \in configs
    /\ inbound \in [Reqs -> requests]
    /\ \A r \in Reqs \ arriving : inbound[r] = CHOOSE q \in requests : TRUE
    /\ phase = [r \in Reqs |-> IF r \in arriving THEN "pending" ELSE "absent"]
    /\ closure = [r \in Reqs |-> NoClosure]
    /\ trace = [r \in Reqs |-> << >>]
    /\ conn = [r \in Reqs |-> "none"]
    /\ res = [r \in Reqs |-> NewResponse]
    /\ errBudget = [r \in Reqs |-> budget]
    /\ hostCalls = [r \in Reqs |-> 0]

Init == InitWith(MainConfigs, MainRequests, {"r1"}, MaxResponseErrors)

\* express calls the handler with (req, res, next); the handler runs to its
\* return without interruption
Handle(r) ==
    /\ phase[r] = "pending"
    /\ LET h == Handler(config, inbound[r])
           set == SetHeaders(h.effects)
       IN  /\ phase' = [phase EXCEPT ![r] = h.phase]
           /\ closure' = [closure EXCEPT ![r] = h.closure]
           /\ trace' = [trace EXCEPT ![r] = @ \o h.effects]
           /\ conn' = [conn EXCEPT ![r] =
                          IF h.phase = "streaming" THEN "open" ELSE @]
           /\ res' = [res EXCEPT
                  ![r].headers = IF set = << >> THEN @
                                 ELSE Put(@, set[1].name, set[1].value),
                  ![r].piped = (h.phase = "streaming")]
    /\ hostCalls' = [hostCalls EXCEPT ![r] = @ + HostResolverCalls(config)]
    /\ UNCHANGED <<config, inbound, errBudget>>

Delivered(emitter, event, err) ==
    [op |-> "event", emitter |-> emitter, event |-> event, err |-> err]

\* the outbound request emits 'error': the transport has failed and the
\* connection is gone
RequestStreamError(r, err) ==
    /\ phase[r] = "streaming"
    /\ conn[r] = "open"
    /\ conn' = [conn EXCEPT ![r] = "closed"]
    /\ trace' = [trace EXCEPT ![r] =
                    Append(@, Delivered("requestStream", "error", err))
                    \o OnRequestError(closure[r], err)]
    /\ UNCHANGED <<config, inbound, phase, closure, res, errBudget, hostCalls>>

\* the response (the pipe's destination) emits 'error'
ResponseStreamError(r, err) ==
    /\ phase[r] = "streaming"
    /\ errBudget[r] > 0
    /\ errBudget' = [errBudget EXCEPT ![r] = @ - 1]
    /\ trace' = [trace EXCEPT ![r] =
                    Append(@, Delivered("responseStream", "error", err))
                    \o OnResponseError(closure[r], err)]
    /\ UNCHANGED <<config, inbound, phase, closure, conn, res, hostCalls>>

\* the pipe writes a chunk of the backend's response into the response
BackendData(r) ==
    /\ conn[r] = "open"
    /\ res[r].piped
    /\ res[r].state = "open"
    /\ res[r].chunks < MaxChunks
    /\ res' = [res EXCEPT ![r].chunks = @ + 1]
    /\ UNCHANGED <<config, inbound, phase, closure, trace, conn, errBudget, hostCalls>>

\* the backend's response ends: the connection is released and the pipe
\* ends the response
BackendEnd(r) ==
    /\ conn[r] = "open"
    /\ conn' = [conn EXCEPT ![r] = "closed"]
    /\ res' = [res EXCEPT ![r].state = IF @ = "open" THEN "ended" ELSE @]
    /\ UNCHANGED <<config, inbound, phase, closure, trace, errBudget, hostCalls>>

\* the framework's error handler, given an error by next, ends the response
ErrorHandlerEndsResponse(r) ==
    /\ phase[r] = "streaming"
    /\ NextCalls(r) # << >>
    /\ res[r].state = "open"
    /\ res' = [res EXCEPT ![r].state = "ended"]
    /\ UNCHANGED <<config, inbound, phase, closure, trace, conn, errBudget, hostCalls>>

\* the ended response has been flushed and emits 'finish'
ResponseFinish(r) ==
    /\ phase[r] = "streaming"
    /\ res[r].state = "ended"
    /\ res' = [res EXCEPT ![r].state = "finished"]
    /\ trace' = [trace EXCEPT ![r] =
                    Append(@, Delivered("responseStream", "finish", "-"))
                    \o OnFinish(closure[r])]
    /\ UNCHANGED <<config, inbound, phase, closure, conn, errBudget, hostCalls>>

\* the client goes away before the response has finished: the response
\* emits 'close', for which the handler has registered no listener
ClientAbort(r) ==
    /\ phase[r] = "streaming"
    /\ res[r].state \in {"open", "ended"}
    /\ res' = [res EXCEPT ![r].state = "closed"]
    /\ UNCHANGED <<config, inbound, phase, closure, trace, conn, errBudget, hostCalls>>

Next ==
    \E r \in Reqs :
        \/ Handle(r)
        \/ \E err \in Errors : RequestStreamError(r, err)
        \/ \E err \in Errors : ResponseStreamError(r, err)
        \/ BackendData(r)
        \/ BackendEnd(r)
        \/ ErrorHandlerEndsResponse(r)
        \/ ResponseFinish(r)
        \/ ClientAbort(r)

Spec == Init /\ [][Next]_vars

\* one configuration with a fixed string host, for the properties of what
\* eventually happens
FairConfigs ==
    {c \in MainConfigs :
        /\ c.urlHost = FixedOption(JsString("http://a"))
        /\ c.logger = "full"
        /\ c.additionalLogMessage = ""
        /\ c.headers.kind = "absent"
        /\ c.addCurlHeader.kind = "absent"}

FairInit == InitWith(FairConfigs, MainRequests, {"r1"}, MaxResponseErrors)

\* the handler runs once express has handed it the request; nothing makes the
\* backend, the client or the streams act
FairSpec ==
    FairInit /\ [][Next]_vars /\ \A r \in Reqs : WF_vars(Handle(r))

\* for the properties of the outbound descriptor: every kind of headers
\* option without a logger, and every kind of logger with the default
\* headers, on a host that is a string and on one that is not; every body
\* and every agentOptions
ForwardConfigs ==
    {c \in [urlHost : {FixedOption(JsString("http://a")),
                       FixedOption(JsNumber(42))},
            logger : LoggerOptions,
            additionalLogMessage : {"orders-service"},
            headers : HeadersOptions,
            addCurlHeader : {a \in AddCurlHeaderOptions :
                                a.kind = "absent"
                                \/ (a.kind = "value" /\ a.value)}] :
        \/ c.logger = "absent" /\ c.addCurlHeader.kind = "absent"
        \/ c.headers.kind = "absent"}

ForwardRequests == {q \in Requests : q.originalUrl = "/v1/x"}

ForwardInit ==
    InitWith(ForwardConfigs, ForwardRequests, {"r1"}, MaxResponseErrors)

ForwardSpec == ForwardInit /\ [][Next]_vars

\* as FairSpec, and the transport eventually either delivers the whole
\* response or fails, and an ended response is eventually flushed; nothing
\* makes the client stay
TransportFairSpec ==
    /\ FairInit /\ [][Next]_vars
    /\ \A r \in Reqs :
          /\ WF_vars(Handle(r))
          /\ WF_vars(BackendEnd(r) \/ \E err \in Errors : RequestStreamError(r, err))
          /\ WF_vars(ResponseFinish(r))

\* every kind of addCurlHeader option, on requests whose reconstruction is
\* far below the cap, one character below it and exactly at it.  With the
\* host "http://a", the method POST and the default headers the encoded
\* command has 142 characters besides the body's key for the url "/v1/x",
\* and 146 for "/v1/x?q=1".
CurlConfigs ==
    [urlHost : {FixedOption(JsString("http://a"))},
     logger : {"absent"},
     additionalLogMessage : {""},
     headers : {h \in HeadersOptions : h.kind = "absent"},
     addCurlHeader : AddCurlHeaderOptions]

CurlCases ==
    {[originalUrl |-> "/v1/x", baseUrl |-> "", body |-> b] :
        b \in {BodyObject(<< <<"a", 1>> >>),
               PaddedBody(MAX_HEADER_SIZE - 143),
               PaddedBody(MAX_HEADER_SIZE - 142)}}
    \cup
    {[originalUrl |-> "/api/v1/x?q=1", baseUrl |-> "/api", body |-> b] :
        b \in {BodyObject(<< <<"a", 1>> >>),
               PaddedBody(MAX_HEADER_SIZE - 147),
               PaddedBody(MAX_HEADER_SIZE - 146)}}

CurlRequests ==
    {[method |-> "POST", originalUrl |-> c.originalUrl, baseUrl |-> c.baseUrl,
      body |-> c.body, agentOptions |-> EmptyObject] : c \in CurlCases}

CurlInit == InitWith(CurlConfigs, CurlRequests, {"r1"}, MaxResponseErrors)

CurlSpec == CurlInit /\ [][Next]_vars

\* the same request arriving twice, under resolver functions for the host
\* and the headers
TwiceConfigs ==
    [urlHost : {FunctionOption("hostOfMount")},
     logger : {"absent"},
     additionalLogMessage : {""},
     headers : {h \in HeadersOptions : h.kind = "function"},
     addCurlHeader : {a \in AddCurlHeaderOptions : a.kind = "absent"}]

TwiceRequests ==
    {q \in Requests :
        /\ q.originalUrl = "/api/v1/x?q=1"
        /\ q.agentOptions = << <<"ca", "pem">> >>
        /\ \/ q.method = "POST" /\ q.body = BodyObject(<< <<"a", 1>> >>)
           \/ q.method = "GET" /\ q.body = BodyObject(<< >>)}

TwiceInit ==
    /\ InitWith(TwiceConfigs, TwiceRequests, Reqs, MaxResponseErrors)
    /\ \A r \in Reqs : inbound[r] = inbound["r1"]

TwiceSpec == TwiceInit /\ [][Next]_vars

\* two requests in flight at once under one configuration whose resolvers
\* give each of them a different host and different headers
ConcurrentConfigs ==
    [urlHost : {FunctionOption("hostOfMount")},
     logger : {"full"},
     additionalLogMessage : {"orders-service"},
     headers : {h \in HeadersOptions : h.kind = "function"},
     addCurlHeader : {a \in AddCurlHeaderOptions : a.kind = "absent"}]

ConcurrentRequests ==
    {q \in Requests :
        /\ q.agentOptions = EmptyObject
        /\ q.body = BodyObject(<< <<"a", 1>> >>)
        /\ \/ q.method = "POST" /\ q.originalUrl = "/v1/x"
           \/ q.method = "GET" /\ q.originalUrl = "/api/v1/x?q=1"}

ConcurrentInit ==
    /\ InitWith(ConcurrentConfigs, ConcurrentRequests, Reqs, MaxResponseErrors)
    /\ inbound["r1"].baseUrl = ""
    /\ inbound["r2"].baseUrl # ""

ConcurrentSpec == ConcurrentInit /\ [][Next]_vars

(***************************************************************************)
(* Observations shared by the properties.                                  *)
(***************************************************************************)
Handled(r) == phase[r] \in {"threw", "hostError", "streaming"}

IsEvent(e, emitter, event) ==
    e.op = "event" /\ e.emitter = emitter /\ e.event = event

HasEvent(r, emitter, event) ==
    \E i \in 1..Len(trace[r]) : IsEvent(trace[r][i], emitter, event)

ErrorNames(r) == [i \in 1..Len(NextCalls(r)) |-> NextCalls(r)[i].err.name]

\* the host the options resolve to for request r
ResolvedHost(r) == ResolveHost(config, inbound[r])

\* req.originalUrl without its leading req.baseUrl
PathAfterMount(r) ==
    SubSeq(inbound[r].originalUrl, Len(inbound[r].baseUrl) + 1,
           Len(inbound[r].originalUrl))

\* the listener run for the event at place i of r's trace has called next,
\* after at most a logger.error call, with an error of this name that carries
\* the event's error and the url
ReportedAs(r, i, name, url) ==
    \E j \in {i + 1, i + 2} :
        /\ j <= Len(trace[r])
        /\ \A k \in (i + 1)..(j - 1) : trace[r][k].op = "logger.error"
        /\ trace[r][j].op = "next"
        /\ trace[r][j].err.name = name
        /\ trace[r][j].err.cause = trace[r][i].err
        /\ trace[r][j].err.meta.url = url

(***************************************************************************)
(* C1: next is called at most once for a request, whatever events follow   *)
(* it.  The listeners have no guard: each 'error' event calls next again.  *)
(***************************************************************************)
C1_NextCalledAtMostOnce == \A r \in Reqs : Len(NextCalls(r)) <= 1

(***************************************************************************)
(* C2: a resolved host that is not a string makes the handler call next    *)
(* with PROXY_HOST_ERROR, once; no outbound request is issued, nothing is  *)
(* piped into the response and no response header is set.                  *)
(***************************************************************************)
C2_NonStringHostIsHostError ==
    \A r \in Reqs :
        (/\ Handled(r)
         /\ ~ResolvedHost(r).threw
         /\ TypeOf(ResolvedHost(r).value) # "string")
        => /\ ErrorNames(r) = <<"PROXY_HOST_ERROR">>
           /\ OutboundRequests(r) = << >>
           /\ conn[r] = "none"
           /\ ~res[r].piped
           /\ res[r].chunks = 0
           /\ res[r].headers = EmptyObject
           /\ \A i \in 1..Len(trace[r]) :
                  trace[r][i].op \in {"logger.error", "next"}

C2_Witness ==
    \E r \in Reqs :
        /\ config.urlHost.fn = "returns42"
        /\ phase[r] = "hostError"
        /\ Len(NextCalls(r)) = 1

(***************************************************************************)
(* C3: a resolved host that is the empty string is a host-resolution       *)
(* failure too.  The handler tests typeof host only, so "" passes.         *)
(***************************************************************************)
C3_EmptyHostIsHostError ==
    \A r \in Reqs :
        (/\ Handled(r)
         /\ ~ResolvedHost(r).threw
         /\ ResolvedHost(r).value = JsString(""))
        => /\ ErrorNames(r) = <<"PROXY_HOST_ERROR">>
           /\ OutboundRequests(r) = << >>

(***************************************************************************)
(* C4: a request whose host resolves to a string has exactly one outbound  *)
(* request over its whole lifetime, whatever errors follow.                *)
(***************************************************************************)
C4_ExactlyOneOutboundRequest ==
    \A r \in Reqs :
        (/\ Handled(r)
         /\ ~ResolvedHost(r).threw
         /\ TypeOf(ResolvedHost(r).value) = "string")
        => Len(OutboundRequests(r)) = 1

C4_Witness ==
    \E r \in Reqs :
        /\ HasEvent(r, "requestStream", "error")
        /\ HasEvent(r, "responseStream", "error")
        /\ Len(OutboundRequests(r)) = 1

(***************************************************************************)
(* C5: an 'error' of the outbound request is reported by calling next with *)
(* a PROXY_REQUEST_ERROR that carries the error as its cause and the url   *)
(* of the same request: the resolved host followed by the path after the   *)
(* mount, which is the url of the request that was issued.                 *)
(***************************************************************************)
C5_RequestErrorReported ==
    \A r \in Reqs : \A i \in 1..Len(trace[r]) :
        IsEvent(trace[r][i], "requestStream", "error")
        => /\ ReportedAs(r, i, "PROXY_REQUEST_ERROR",
                         ResolvedHost(r).value.s \o PathAfterMount(r))
           /\ ReportedAs(r, i, "PROXY_REQUEST_ERROR",
                         Get(OutboundRequests(r)[1].options, "url"))

C5_Witness ==
    \E r \in Reqs : \E i \in 1..Len(trace[r]) :
        /\ IsEvent(trace[r][i], "requestStream", "error")
        /\ trace[r][i].err = "ECONNREFUSED"
        /\ inbound[r].baseUrl # ""
        /\ config.urlHost.kind = "function"

(***************************************************************************)
(* C6: an 'error' of the piped response stream is reported by calling next *)
(* with a PROXY_RESPONSE_ERROR that carries the error as its cause and the *)
(* url, and never with PROXY_REQUEST_ERROR.                                *)
(***************************************************************************)
C6_ResponseErrorReported ==
    \A r \in Reqs : \A i \in 1..Len(trace[r]) :
        IsEvent(trace[r][i], "responseStream", "error")
        => /\ ReportedAs(r, i, "PROXY_RESPONSE_ERROR",
                         ResolvedHost(r).value.s \o PathAfterMount(r))
           /\ ~ReportedAs(r, i, "PROXY_REQUEST_ERROR",
                          ResolvedHost(r).value.s \o PathAfterMount(r))

C6_Witness ==
    \E r \in Reqs : \E i \in 1..Len(trace[r]) :
        /\ IsEvent(trace[r][i], "responseStream", "error")
        /\ res[r].chunks > 0
        /\ conn[r] = "open"

(***************************************************************************)
(* C7: once the client has gone while the response was being streamed, the *)
(* outbound request is eventually aborted or released.  The handler        *)
(* registers no listener for the client going away and never aborts the    *)
(* outbound request: it stays open for as long as the backend keeps it.    *)
(***************************************************************************)
C7_ClientAbortReleasesOutbound ==
    \A r \in Reqs : (res[r].state = "closed") ~> (conn[r] # "open")

(***************************************************************************)
(* C8: when the backend has responded and the client disconnects in the    *)
(* middle of the stream, next is called with PROXY_RESPONSE_ERROR.         *)
(***************************************************************************)
C8_ClientAbortReported ==
    \A r \in Reqs :
        (res[r].chunks > 0 /\ res[r].state = "closed")
        ~> (\E i \in 1..Len(NextCalls(r)) :
                ErrorNames(r)[i] = "PROXY_RESPONSE_ERROR")

(***************************************************************************)
(* C9: on a failure of any of the three kinds the handler writes no status *)
(* and no body to the response: the turn that reports the failure consists *)
(* of at most a logger.error call and the call of next, and nothing in the *)
(* whole trace is a direct write to the response.                          *)
(***************************************************************************)
C9_NoDirectResponseWrite ==
    \A r \in Reqs : \A i \in 1..Len(trace[r]) :
        /\ trace[r][i].op \notin {"res.status", "res.send", "res.write", "res.end"}
        /\ trace[r][i].op = "next" =>
              /\ i > 1 => trace[r][i - 1].op \in {"logger.error", "event"}
              /\ i < Len(trace[r]) => trace[r][i + 1].op = "event"

C9_Witness ==
    \E r \in Reqs :
        /\ Len(NextCalls(r)) = 2
        /\ ErrorNames(r)[1] = "PROXY_RESPONSE_ERROR"
        /\ ErrorNames(r)[2] = "PROXY_REQUEST_ERROR"
        /\ res[r].chunks > 0

(***************************************************************************)
(* C10: a host resolver that throws is reported through next as            *)
(* PROXY_HOST_ERROR, with no outbound request, and the exception does not  *)
(* leave the handler.                                                      *)
(***************************************************************************)
C10_ResolverThrowIsHostError ==
    \A r \in Reqs :
        (Handled(r) /\ ResolvedHost(r).threw)
        => /\ phase[r] # "threw"
           /\ ErrorNames(r) = <<"PROXY_HOST_ERROR">>
           /\ OutboundRequests(r) = << >>

(***************************************************************************)
(* C10, amended: a host resolver that throws is not caught: the exception  *)
(* leaves the handler, which calls neither next nor the logger and issues  *)
(* no outbound request.                                                    *)
(***************************************************************************)
C10_ResolverThrowEscapes ==
    \A r \in Reqs :
        (Handled(r) /\ ResolvedHost(r).threw)
        => /\ phase[r] = "threw"
           /\ trace[r] = <<[op |-> "throw"]>>
           /\ NextCalls(r) = << >>
           /\ OutboundRequests(r) = << >>
           /\ conn[r] = "none"

C10_Witness ==
    \E r \in Reqs : config.urlHost.fn = "throws" /\ phase[r] = "threw"

(***************************************************************************)
(* C11: for a request whose host resolves to a string, the url of the      *)
(* outbound request is the resolved host followed directly by the original *)
(* url without its mount prefix; what follows the prefix, a query string   *)
(* included, is carried character for character.                           *)
(***************************************************************************)
C11_OutboundUrlIsHostPlusPath ==
    \A r \in Reqs :
        (/\ Handled(r)
         /\ ~ResolvedHost(r).threw
         /\ TypeOf(ResolvedHost(r).value) = "string")
        => /\ OutboundRequests(r) # << >>
           /\ Get(OutboundRequests(r)[1].options, "url")
                  = ResolvedHost(r).value.s \o PathAfterMount(r)

C11_Witness ==
    \E r \in Reqs :
        /\ inbound[r].originalUrl = "/api/v1/x?q=1"
        /\ inbound[r].baseUrl = "/api"
        /\ OutboundRequests(r) # << >>
        /\ Get(OutboundRequests(r)[1].options, "url") = "http://b/v1/x?q=1"

\* the headers the options resolve to for request r, before the defaults
ResolvedHeaders(r) ==
    IF config.headers.kind = "function"
    THEN CallHeaders(config.headers.fn, inbound[r])
    ELSE config.headers.value

(***************************************************************************)
(* C12: whatever the headers option is (a fixed mapping, a function of the *)
(* request, or absent), the headers of the outbound request have every     *)
(* default key and every resolved key and no other; a resolved key has the *)
(* resolved value, and a default key that is not resolved has its default. *)
(***************************************************************************)
C12_HeadersMergedOverDefaults ==
    \A r \in Reqs : \A i \in 1..Len(OutboundRequests(r)) :
        LET headers == Get(OutboundRequests(r)[i].options, "headers")
            resolved == ResolvedHeaders(r)
        IN  /\ Has(headers, "Accept") /\ Has(headers, "Content-Type")
            /\ \A j \in 1..Len(resolved) :
                   /\ Has(headers, resolved[j][1])
                   /\ Get(headers, resolved[j][1]) = resolved[j][2]
            /\ \A k \in {"Accept", "Content-Type"} :
                   ~Has(resolved, k) => Get(headers, k) = "application/json"
            /\ \A j \in 1..Len(headers) :
                   \/ headers[j][1] \in {"Accept", "Content-Type"}
                   \/ Has(resolved, headers[j][1])

C12_Witness ==
    \E r \in Reqs :
        /\ config.headers.kind = "value"
        /\ Has(config.headers.value, "Accept")
        /\ OutboundRequests(r) # << >>
        /\ Get(OutboundRequests(r)[1].options, "headers")
               = << <<"Accept", "text/plain">>,
                    <<"Content-Type", "application/json">> >>

(***************************************************************************)
(* C13: the outbound request always carries a serialized body: the JSON    *)
(* text of the inbound body, and the text of an empty structure when the   *)
(* inbound body is absent; the body is never left out of the descriptor.   *)
(* JSON.stringify(undefined) is undefined, not a text: for a request with  *)
(* no parsed body the descriptor's body is undefined.                      *)
(***************************************************************************)
C13_BodyAlwaysSerialized ==
    \A r \in Reqs : \A i \in 1..Len(OutboundRequests(r)) :
        LET body == Get(OutboundRequests(r)[i].options, "body")
        IN  /\ TypeOf(body) = "string"
            /\ inbound[r].body.t = "undefined" => body.s = "{}"
            /\ inbound[r].body = BodyObject(<< >>) => body.s = "{}"
            /\ inbound[r].body = BodyObject(<< <<"a", 1>> >>)
                   => body.s = "{\"a\":1}"

\* the options with the addCurlHeader option left out
WithoutCurlOption ==
    [config EXCEPT !.addCurlHeader = [kind |-> "absent", value |-> FALSE, fn |-> "-"]]

(***************************************************************************)
(* C14: the response has the header x-curl-command exactly when the        *)
(* addCurlHeader option resolves to true for the request (absent counts as *)
(* false) and the percent-encoded reconstruction of the outbound request   *)
(* has fewer than 40960 characters; the header's value is then that        *)
(* reconstruction.  Whether or not the header is set, the handler issues   *)
(* the same single outbound request and pipes it, as it does without the   *)
(* option.                                                                 *)
(***************************************************************************)
C14_CurlHeaderIffEnabledAndShort ==
    [][\A r \in Reqs :
        IF phase[r] # "pending"
        THEN res'[r].headers = res[r].headers
        ELSE
          /\ ~Has(res[r].headers, "x-curl-command")
          /\ phase'[r] \notin {"pending", "streaming"}
                => ~Has(res'[r].headers, "x-curl-command")
          /\ phase'[r] = "streaming" =>
                LET requests == SelectSeq(trace'[r], LAMBDA e : e.op = "request")
                    options == requests[1].options
                    command == EncodeURI(createCurlRequest(options))
                    enabled ==
                        CASE config.addCurlHeader.kind = "absent" -> FALSE
                          [] config.addCurlHeader.kind = "value" ->
                                 config.addCurlHeader.value
                          [] OTHER -> Includes(inbound[r].originalUrl, "?")
                    plain == Handler(WithoutCurlOption, inbound[r]).effects
                IN  /\ Len(requests) = 1
                    /\ Has(res'[r].headers, "x-curl-command")
                          <=> (enabled /\ Len(command) < 40960)
                    /\ Has(res'[r].headers, "x-curl-command")
                          => Get(res'[r].headers, "x-curl-command") = command
                    /\ res'[r].piped
                    /\ conn'[r] = "open"
                    /\ SelectSeq(trace'[r],
                                 LAMBDA e : e.op # "res.setHeader") = plain
    ]_vars

C14_Witness ==
    \E r \in Reqs :
        /\ config.addCurlHeader.kind = "function"
        /\ Includes(inbound[r].originalUrl, "?")
        /\ phase[r] = "streaming"
        /\ ~Has(res[r].headers, "x-curl-command")
        /\ res[r].chunks > 0
        /\ Len(EncodeURI(createCurlRequest(OutboundRequests(r)[1].options)))
               = 40960

\* the keys of the descriptor that the handler sets itself
OwnKeys == {"method", "headers", "url", "body"}

(***************************************************************************)
(* C15: every option of the inbound request's agentOptions is on the       *)
(* descriptor of the outbound request with the same value, whatever its    *)
(* key.  The handler's own keys are written after agentOptions is spread,  *)
(* so an option named url is replaced.                                     *)
(***************************************************************************)
C15_AgentOptionsCarriedOver ==
    \A r \in Reqs : \A i \in 1..Len(OutboundRequests(r)) :
        LET options == OutboundRequests(r)[i].options
            agentOptions == inbound[r].agentOptions
        IN  \A j \in 1..Len(agentOptions) :
                /\ Has(options, agentOptions[j][1])
                /\ Get(options, agentOptions[j][1]) = agentOptions[j][2]

(***************************************************************************)
(* C15, amended: every option of agentOptions whose key is not one of the  *)
(* handler's own (method, headers, url, body) is on the descriptor with    *)
(* the same value; under its own four keys the descriptor has what the     *)
(* handler computed, whatever agentOptions has there.                      *)
(***************************************************************************)
C15_AgentOptionsCarriedUnlessOwnKey ==
    \A r \in Reqs : \A i \in 1..Len(OutboundRequests(r)) :
        LET options == OutboundRequests(r)[i].options
            agentOptions == inbound[r].agentOptions
        IN  /\ \A j \in 1..Len(agentOptions) :
                   agentOptions[j][1] \notin OwnKeys
                   => /\ Has(options, agentOptions[j][1])
                      /\ Get(options, agentOptions[j][1]) = agentOptions[j][2]
            /\ Get(options, "method") = inbound[r].method
            /\ Get(options, "url")
                   = ResolvedHost(r).value.s \o PathAfterMount(r)
            /\ \A j \in 1..Len(options) :
                   \/ options[j][1] \in OwnKeys
                   \/ Has(agentOptions, options[j][1])

C15_Witness ==
    \E r \in Reqs :
        /\ inbound[r].agentOptions
               = << <<"ca", "pem">>, <<"url", "http://other">> >>
        /\ OutboundRequests(r) # << >>
        /\ Get(OutboundRequests(r)[1].options, "ca") = "pem"
        /\ Get(OutboundRequests(r)[1].options, "url") = "http://a/v1/x"

\* the events delivered to the listeners of a request, in order
Events(t) == SelectSeq(t, LAMBDA e : e.op = "event")

\* a trace without its logger calls
WithoutLogs(t) ==
    SelectSeq(t, LAMBDA e : e.op \notin {"logger.info", "logger.error"})

\* the listener the handler registered for an event, run with closure c
Listener(c, e) ==
    CASE IsEvent(e, "requestStream", "error") -> OnRequestError(c, e.err)
      [] IsEvent(e, "responseStream", "error") -> OnResponseError(c, e.err)
      [] OTHER -> OnFinish(c)

RECURSIVE Deliver(_, _)
Deliver(c, events) ==
    IF events = << >> THEN << >>
    ELSE <<Head(events)>> \o Listener(c, Head(events))
         \o Deliver(c, Tail(events))

\* the trace of a request handled under cfg to which these events are
\* delivered
Replay(cfg, req, events) ==
    LET h == Handler(cfg, req)
    IN  h.effects \o Deliver(h.closure, events)

WithLogger == [config EXCEPT !.logger = "full"]

(***************************************************************************)
(* C16: without a logger, or with one that lacks a method, no call of the  *)
(* missing method is made; and apart from the logger calls, the request is *)
(* handled as it is with a full logger when the same events are delivered: *)
(* the same outbound request, the same response header, the same calls of  *)
(* next with the same errors in the same order.                            *)
(***************************************************************************)
C16_LoggerDoesNotChangeBehaviour ==
    \A r \in Reqs :
        Handled(r) =>
          LET logged == Replay(WithLogger, inbound[r], Events(trace[r]))
          IN  /\ trace[r] = Replay(config, inbound[r], Events(trace[r]))
              /\ \A i \in 1..Len(trace[r]) :
                     /\ trace[r][i].op = "logger.info" => HasInfo(config.logger)
                     /\ trace[r][i].op = "logger.error" => HasError(config.logger)
              /\ WithoutLogs(trace[r]) = WithoutLogs(logged)
              /\ SelectSeq(logged, LAMBDA e : e.op = "request")
                     = OutboundRequests(r)
              /\ SelectSeq(logged, LAMBDA e : e.op = "next") = NextCalls(r)
              /\ \A i \in 1..Len(SetHeaders(logged)) :
                     /\ Has(res[r].headers, SetHeaders(logged)[i].name)
                     /\ Get(res[r].headers, SetHeaders(logged)[i].name)
                            = SetHeaders(logged)[i].value
              /\ SetHeaders(logged) = << >> => res[r].headers = EmptyObject

C16_Witness ==
    \E r \in Reqs :
        /\ config.logger = "absent"
        /\ config.addCurlHeader.kind = "value"
        /\ Len(NextCalls(r)) = 2
        /\ Has(res[r].headers, "x-curl-command")
        /\ Len(Replay(WithLogger, inbound[r], Events(trace[r])))
               = Len(trace[r]) + 3

StartsWith(s, prefix) ==
    Len(s) >= Len(prefix) /\ SubSeq(s, 1, Len(prefix)) = prefix

EndsWith(s, suffix) ==
    Len(s) >= Len(suffix) /\ SubSeq(s, Len(s) - Len(suffix) + 1, Len(s)) = suffix

IsLog(e) == e.op \in {"logger.info", "logger.error"}

\* the logger call made before the outbound request, and the one made when
\* the response has finished
IsStartLog(e) == e.op = "logger.info" /\ StartsWith(e.msg, "Proxy start.")
IsEndLog(e) == e.op = "logger.info" /\ StartsWith(e.msg, "Proxy end.")

(***************************************************************************)
(* C19: with a logger and an additionalLogMessage, the message text of     *)
(* every logger call for a request ends with the additional message, and   *)
(* the message text of the start call includes the destination url.  The   *)
(* handler passes the url in the fields object of the call; the message    *)
(* text is "Proxy start." and the additional message.                      *)
(***************************************************************************)
C19_MessagesAnnotatedStartTextHasUrl ==
    \A r \in Reqs : \A i \in 1..Len(trace[r]) :
        (IsLog(trace[r][i]) /\ config.additionalLogMessage # "")
        => /\ EndsWith(trace[r][i].msg, config.additionalLogMessage)
           /\ IsStartLog(trace[r][i])
                 => Includes(trace[r][i].msg,
                             ResolvedHost(r).value.s \o PathAfterMount(r))

(***************************************************************************)
(* C19, amended: with a logger and an additionalLogMessage, the message    *)
(* text of every logger call for a request (start, end, each kind of       *)
(* error) ends with the additional message; the start call carries the     *)
(* destination url as the url field of its fields object, and its message  *)
(* text is "Proxy start." followed by the additional message.              *)
(***************************************************************************)
C19_MessagesAnnotatedStartFieldsHaveUrl ==
    \A r \in Reqs : \A i \in 1..Len(trace[r]) :
        (IsLog(trace[r][i]) /\ config.additionalLogMessage # "")
        => /\ EndsWith(trace[r][i].msg, " " \o config.additionalLogMessage)
           /\ IsStartLog(trace[r][i])
                 => /\ trace[r][i].fields.url
                          = ResolvedHost(r).value.s \o PathAfterMount(r)
                    /\ trace[r][i].msg
                          = "Proxy start. " \o config.additionalLogMessage
           /\ trace[r][i].op = "logger.error"
                 => \E name \in {"PROXY_HOST_ERROR", "PROXY_REQUEST_ERROR",
                                 "PROXY_RESPONSE_ERROR"} :
                        trace[r][i].msg = "Proxy Error: " \o name \o " "
                                          \o config.additionalLogMessage

C19_Witness ==
    \E r \in Reqs :
        /\ config.additionalLogMessage = "orders-service"
        /\ \E i \in 1..Len(trace[r]) :
               /\ IsStartLog(trace[r][i])
               /\ trace[r][i].fields.url = "http://b/v1/x?q=1"
        /\ \E i \in 1..Len(trace[r]) :
               /\ trace[r][i].op = "logger.error"
               /\ trace[r][i].msg
                      = "Proxy Error: PROXY_RESPONSE_ERROR orders-service"
        /\ \E i \in 1..Len(trace[r]) :
               /\ IsEndLog(trace[r][i])
               /\ trace[r][i].msg = "Proxy end. orders-service"

(***************************************************************************)
(* C20: with a logger that has info, a request whose host is a string has  *)
(* exactly one "Proxy start" call, made before the outbound request is     *)
(* issued; a "Proxy end" call is made only by the listener of the          *)
(* response's finish event, at most once, and after the "Proxy start"      *)
(* call of the same request.                                               *)
(***************************************************************************)
C20_StartOnceBeforeRequestEndOnFinish ==
    \A r \in Reqs :
        (/\ HasInfo(config.logger)
         /\ Handled(r)
         /\ ~ResolvedHost(r).threw
         /\ TypeOf(ResolvedHost(r).value) = "string")
        => LET starts == {i \in 1..Len(trace[r]) : IsStartLog(trace[r][i])}
               ends == {i \in 1..Len(trace[r]) : IsEndLog(trace[r][i])}
               issued == {i \in 1..Len(trace[r]) : trace[r][i].op = "request"}
               finishes == {i \in 1..Len(trace[r]) :
                               IsEvent(trace[r][i], "responseStream", "finish")}
           IN  /\ Cardinality(starts) = 1
               /\ issued # {}
               /\ \A i \in starts : \A j \in issued : i < j
               /\ Cardinality(ends) <= 1
               /\ \A j \in ends :
                      /\ j - 1 \in finishes
                      /\ \A i \in starts : i < j
               /\ \A f \in finishes : f + 1 \in ends

C20_Witness ==
    \E r \in Reqs :
        /\ config.logger = "infoOnly"
        /\ Len(trace[r]) >= 5
        /\ IsStartLog(trace[r][1])
        /\ trace[r][2].op = "request"
        /\ IsEvent(trace[r][Len(trace[r]) - 1], "responseStream", "finish")
        /\ IsEndLog(trace[r][Len(trace[r])])

(***************************************************************************)
(* C21: "Proxy end" is never logged for a request for which next has been  *)
(* called, in whichever order the two would happen.  The finish listener   *)
(* has no such condition: when the framework's error handler ends the      *)
(* response after next(err), the response finishes and the listener logs   *)
(* "Proxy end".                                                            *)
(***************************************************************************)
C21_NoProxyEndWithNext ==
    \A r \in Reqs :
        NextCalls(r) # << >>
        => \A i \in 1..Len(trace[r]) : ~IsEndLog(trace[r][i])

\* the places of the calls of an operation in the trace of request r
Places(r, op) == {i \in 1..Len(trace[r]) : trace[r][i].op = op}

(***************************************************************************)
(* C22: when the header x-curl-command is set for a request, it is set     *)
(* before the outbound request is issued.  The handler calls request()     *)
(* first and builds the command and sets the header after it.              *)
(***************************************************************************)
C22_CurlHeaderBeforeRequest ==
    \A r \in Reqs :
        \A i \in Places(r, "res.setHeader") : \A j \in Places(r, "request") :
            i < j

(***************************************************************************)
(* C22, amended: when the header x-curl-command is set for a request, it   *)
(* is set once, in the handler's own pass: after the call that issues the  *)
(* outbound request, before the outbound request is piped into the         *)
(* response and before any event of either stream is delivered; its value  *)
(* is the encoded reconstruction of the descriptor that was issued.        *)
(***************************************************************************)
C22_CurlHeaderAfterRequestBeforePipe ==
    \A r \in Reqs :
        /\ Cardinality(Places(r, "res.setHeader")) <= 1
        /\ \A i \in Places(r, "res.setHeader") :
               /\ Places(r, "request") # {}
               /\ \A j \in Places(r, "request") :
                      /\ j < i
                      /\ trace[r][i].value
                             = EncodeURI(createCurlRequest(trace[r][j].options))
               /\ Places(r, "pipe") # {}
               /\ \A j \in Places(r, "pipe") \cup Places(r, "event") : i < j

C22_Witness ==
    \E r \in Reqs :
        /\ Places(r, "res.setHeader") # {}
        /\ Has(res[r].headers, "x-curl-command")
        /\ res[r].chunks > 0
        /\ HasEvent(r, "responseStream", "finish")

\* the host that the resolver hostOfMount gives the requests of a mount
HostOfMount(r) == IF inbound[r].baseUrl = "" THEN "http://a" ELSE "http://b"

(***************************************************************************)
(* C23: with requests handled concurrently under one configuration, the    *)
(* host resolver is called once for each request, and the host and the url *)
(* in a request's outbound descriptor, in its logger calls and in the      *)
(* errors given to next are those resolved for that request, never those   *)
(* of the other request in flight; so are its headers.                     *)
(***************************************************************************)
C23_OwnHostAndUrlThroughout ==
    \A r \in Reqs :
        Handled(r) =>
          LET host == HostOfMount(r)
              url == host \o PathAfterMount(r)
          IN  /\ hostCalls[r] = 1
              /\ closure[r].host = host
              /\ closure[r].urlPath = PathAfterMount(r)
              /\ \A i \in 1..Len(trace[r]) :
                     LET e == trace[r][i]
                     IN  /\ e.op = "request"
                               => /\ Get(e.options, "url") = url
                                  /\ Get(Get(e.options, "headers"), "x-user")
                                        = "u-" \o inbound[r].method
                         /\ IsLog(e)
                               => /\ e.fields.host = JsString(host)
                                  /\ e.fields.urlPath = PathAfterMount(r)
                         /\ (IsStartLog(e) \/ e.op = "logger.error")
                               => e.fields.url = url
                         /\ e.op = "next"
                               => /\ e.err.meta.url = url
                                  /\ e.err.detail
                                        = "The proxied path is "
                                          \o PathAfterMount(r)
                                          \o ". The host is " \o host \o "."

C23_Witness ==
    /\ phase["r1"] = "streaming" /\ phase["r2"] = "streaming"
    /\ closure["r1"].host = "http://a" /\ closure["r2"].host = "http://b"
    /\ \E i \in 1..Len(trace["r1"]) :
           /\ IsEvent(trace["r1"][i], "requestStream", "error")
           /\ Len(trace["r2"]) >= 3
    /\ \E i \in 1..Len(NextCalls("r2")) :
           NextCalls("r2")[i].err.meta.url = "http://b/v1/x?q=1"
    /\ \E i \in 1..Len(NextCalls("r1")) :
           NextCalls("r1")[i].err.meta.url = "http://a/v1/x"

(***************************************************************************)
(* C24: with a logger that has error, each failure (the host, the outbound *)
(* request, the response stream) makes exactly one logger.error call that  *)
(* names the kind of the failure, and the call is made before next is      *)
(* called for that failure: every call of next directly follows the        *)
(* logger.error call of its kind, and every logger.error call is directly  *)
(* followed by the call of next of its kind.                               *)
(***************************************************************************)
C24_ErrorLoggedOnceBeforeNext ==
    \A r \in Reqs :
        HasError(config.logger) =>
          /\ Cardinality(Places(r, "logger.error"))
                = Cardinality(Places(r, "next"))
          /\ \A j \in Places(r, "next") :
                 /\ j > 1
                 /\ trace[r][j - 1].op = "logger.error"
                 /\ StartsWith(trace[r][j - 1].msg,
                               "Proxy Error: " \o trace[r][j].err.name)
                 /\ j > 2 =>
                        /\ trace[r][j - 2].op = "event"
                        /\ trace[r][j - 2].event = "error"
                        /\ trace[r][j].err.name
                              = (IF trace[r][j - 2].emitter = "requestStream"
                                 THEN "PROXY_REQUEST_ERROR"
                                 ELSE "PROXY_RESPONSE_ERROR")
                 /\ j = 2 => trace[r][j].err.name = "PROXY_HOST_ERROR"
          /\ \A i \in Places(r, "event") :
                 trace[r][i].event = "error"
                 => /\ i + 2 <= Len(trace[r])
                    /\ trace[r][i + 1].op = "logger.error"
                    /\ trace[r][i + 2].op = "next"
          /\ phase[r] = "hostError" => Len(trace[r]) = 2

C24_Witness ==
    \E r \in Reqs :
        /\ config.logger = "errorOnly"
        /\ Cardinality(Places(r, "logger.error")) = 2
        /\ ErrorNames(r) = <<"PROXY_RESPONSE_ERROR", "PROXY_REQUEST_ERROR">>
        /\ trace[r][Len(trace[r]) - 1].msg
               = "Proxy Error: PROXY_REQUEST_ERROR orders-service"

(***************************************************************************)
(* C25: when the transport eventually delivers the whole response or emits *)
(* an error, every request eventually has its response finished or next    *)
(* called for it.  A request whose client goes away during the stream has  *)
(* neither: the response emits only close, for which the handler has no    *)
(* listener, and the backend's end then finishes nothing.                  *)
(***************************************************************************)
C25_EveryRequestTerminates ==
    \A r \in Reqs :
        (phase[r] = "pending")
        ~> (HasEvent(r, "responseStream", "finish") \/ NextCalls(r) # << >>)

=============================================================================
